---- MODULE Spec2Model ----
(***************************************************************************)
(* Model of the low-level JS utility functions: getType (helpers.js),      *)
(* JSONCheck (json-validator.js) and stringEncoder (stringEncoder.js).     *)
(*                                                                         *)
(* JavaScript values are records tagged with their language type.  A JS    *)
(* string is a sequence of one-character strings, so that indexOf, split,  *)
(* charAt, slice and JSON escaping are computed character by character.    *)
(* The result of a call is an outcome: "true", "false" or "TypeError"      *)
(* (the call threw).                                                       *)
(***************************************************************************)
EXTENDS Integers, Sequences, FiniteSets, TLC

VARIABLES inputData, validator, result, data, encoded, decoded,
          argA, argB, equal,
          heap, cloneInput, typeList, keyList, valList, clone,
          descent

vars == <<inputData, validator, result, data, encoded, decoded,
          argA, argB, equal,
          heap, cloneInput, typeList, keyList, valList, clone,
          descent>>

\* the state of a call of equals, of objDeepClone, of an observed JSONCheck
equalsVars == <<argA, argB, equal>>
cloneVars == <<heap, cloneInput, typeList, keyList, valList, clone>>

-----------------------------------------------------------------------------
(* Bounds of the explored universe *)

MaxArrLen == 2      \* longest input sequence built from InputElems
MaxListLen == 2     \* longest schema list built from ListEntries
MaxNodes == 2       \* most objects in a generated input graph of objDeepClone

-----------------------------------------------------------------------------
(* JavaScript values *)

\* the numbers explored are the integers and NaN
Undef == [t |-> "undefined"]
Null == [t |-> "null"]
NaN == [t |-> "nan"]
Bool(b) == [t |-> "boolean", b |-> b]
Num(n) == [t |-> "number", n |-> n]
Str(s) == [t |-> "string", s |-> s]
RegExp(src) == [t |-> "regexp", src |-> src]
Func == [t |-> "function"]
Arr(items) == [t |-> "array", items |-> items]
\* props: the own enumerable properties <<[k, v], ...>> in for-in order
Obj(props) == [t |-> "object", props |-> props]
Prop(k, v) == [k |-> k, v |-> v]

(* the strings the code names *)
S_undefined == <<"u","n","d","e","f","i","n","e","d">>
S_boolean == <<"b","o","o","l","e","a","n">>
S_number == <<"n","u","m","b","e","r">>
S_string == <<"s","t","r","i","n","g">>
S_null == <<"n","u","l","l">>
S_arraylike == <<"a","r","r","a","y","l","i","k","e">>
S_objectlike == <<"o","b","j","e","c","t","l","i","k","e">>
S_Array == <<"A","r","r","a","y">>
S_Object == <<"O","b","j","e","c","t">>
S_RegExp == <<"R","e","g","E","x","p">>
S_function == <<"f","u","n","c","t","i","o","n">>
S_length == <<"l","e","n","g","t","h">>
S_each == <<"/","e","a","c","h","/">>
S_true == <<"t","r","u","e">>
S_false == <<"f","a","l","s","e">>
S_NaN == <<"N","a","N">>
S_objectObject == <<"[","o","b","j","e","c","t"," ","O","b","j","e","c","t","]">>

Q == "\""

TypeError == "TypeError"
Out(b) == IF b THEN "true" ELSE "false"

-----------------------------------------------------------------------------
(* String primitives *)

Digits == <<"0","1","2","3","4","5","6","7","8","9">>
IsDigit(c) == \E d \in 1..10 : Digits[d] = c
DigitVal(c) == (CHOOSE d \in 1..10 : Digits[d] = c) - 1

RECURSIVE NatToString(_)
NatToString(n) ==
    IF n < 10 THEN <<Digits[n + 1]>>
    ELSE NatToString(n \div 10) \o <<Digits[(n % 10) + 1]>>

\* String(n) / ToString(n) of an integer number
IntToString(n) == IF n < 0 THEN <<"-">> \o NatToString(-n) ELSE NatToString(n)

RECURSIVE DigitsToNat(_)
DigitsToNat(s) ==
    IF s = <<>> THEN 0
    ELSE 10 * DigitsToNat(SubSeq(s, 1, Len(s) - 1)) + DigitVal(s[Len(s)])

AllDigits(s) == s # <<>> /\ \A i \in 1..Len(s) : IsDigit(s[i])

\* Number(s) on the strings of the universe: decimal integers, '' and the rest
StringToNumber(s) ==
    IF s = <<>> THEN Num(0)
    ELSE IF AllDigits(s) THEN Num(DigitsToNat(s))
    ELSE IF s[1] \in {"-", "+"} /\ AllDigits(Tail(s))
         THEN Num((IF s[1] = "-" THEN -1 ELSE 1) * DigitsToNat(Tail(s)))
    ELSE NaN

\* s.indexOf(c): 0-based index of the first occurrence, -1 when absent
IndexOf(s, c) ==
    IF \E i \in 1..Len(s) : s[i] = c
    THEN (CHOOSE i \in 1..Len(s) : s[i] = c /\ \A j \in 1..(i - 1) : s[j] # c) - 1
    ELSE -1

\* s.split(c): the pieces between the occurrences of c
RECURSIVE Split(_, _)
Split(s, c) ==
    LET i == IndexOf(s, c)
    IN  IF i = -1 THEN <<s>>
        ELSE <<SubSeq(s, 1, i)>> \o Split(SubSeq(s, i + 2, Len(s)), c)

\* pieces.join(sep)
RECURSIVE Join(_, _)
Join(pieces, sep) ==
    IF pieces = <<>> THEN <<>>
    ELSE IF Len(pieces) = 1 THEN pieces[1]
    ELSE pieces[1] \o sep \o Join(Tail(pieces), sep)

-----------------------------------------------------------------------------
(* Property access and coercions of the language *)

HasOwn(props, k) == \E i \in 1..Len(props) : props[i].k = k
OwnValue(props, k) == props[CHOOSE i \in 1..Len(props) : props[i].k = k].v

\* a canonical array index: "0", "1", "12", ... (no sign, no leading zero)
IsIndexKey(k) == AllDigits(k) /\ (Len(k) = 1 \/ k[1] # "0")

\* v[k] for a value that is neither undefined nor null (those throw); the
\* keys explored name no inherited property (constructor, toString, ...)
Get(v, k) ==
    CASE v.t = "array" ->
            IF k = S_length THEN Num(Len(v.items))
            ELSE IF IsIndexKey(k) /\ DigitsToNat(k) < Len(v.items)
                 THEN v.items[DigitsToNat(k) + 1]
            ELSE Undef
      [] v.t = "object" ->
            IF HasOwn(v.props, k) THEN OwnValue(v.props, k) ELSE Undef
      [] v.t = "string" ->
            IF k = S_length THEN Num(Len(v.s))
            ELSE IF IsIndexKey(k) /\ DigitsToNat(k) < Len(v.s)
                 THEN Str(<<v.s[DigitsToNat(k) + 1]>>)
            ELSE Undef
      [] OTHER -> Undef

\* v.hasOwnProperty(k)
HasOwnProperty(v, k) ==
    CASE v.t = "array" ->
            k = S_length \/ (IsIndexKey(k) /\ DigitsToNat(k) < Len(v.items))
      [] v.t = "object" -> HasOwn(v.props, k)
      [] OTHER -> FALSE

\* String(v)
RECURSIVE JSString(_)
JSString(v) ==
    CASE v.t = "undefined" -> S_undefined
      [] v.t = "null" -> S_null
      [] v.t = "boolean" -> IF v.b THEN S_true ELSE S_false
      [] v.t = "number" -> IntToString(v.n)
      [] v.t = "nan" -> S_NaN
      [] v.t = "string" -> v.s
      [] v.t = "regexp" -> <<"/">> \o v.src \o <<"/">>
      [] v.t = "array" ->
            Join([i \in 1..Len(v.items) |->
                    IF v.items[i].t \in {"undefined", "null"} THEN <<>>
                    ELSE JSString(v.items[i])], <<",">>)
      [] v.t = "object" -> S_objectObject

\* ToNumber(v), the coercion of the relational and arithmetic operators
ToNumber(v) ==
    CASE v.t = "undefined" -> NaN
      [] v.t = "null" -> Num(0)
      [] v.t = "boolean" -> Num(IF v.b THEN 1 ELSE 0)
      [] v.t \in {"number", "nan"} -> v
      [] OTHER -> StringToNumber(JSString(v))

\* a === b; arrays, objects and RegExps are distinct references in the
\* input and in the validator, so they are never strictly equal
StrictEquals(a, b) ==
    /\ a.t = b.t
    /\ a.t \in {"undefined", "null", "boolean", "number", "string"}
    /\ a = b

-----------------------------------------------------------------------------
(* helpers.js: getType *)

\* typeof input
TypeOf(input) ==
    CASE input.t = "undefined" -> S_undefined
      [] input.t = "boolean" -> S_boolean
      [] input.t \in {"number", "nan"} -> S_number
      [] input.t = "string" -> S_string
      [] input.t = "function" -> S_function
      [] OTHER -> <<"o","b","j","e","c","t">>

\* n > 0 after ToNumber
GreaterThanZero(v) == LET n == ToNumber(v) IN n.t = "number" /\ n.n > 0

\* the duck-typing test: a positive length and an own property at length - 1
IsArrayLike(input) ==
    LET length == Get(input, S_length)
    IN  /\ length # Undef
        /\ GreaterThanZero(length)
        /\ HasOwnProperty(input, IntToString(ToNumber(length).n - 1))

\* for(var k in input) runs its body at least once
HasEnumerableKey(input) ==
    CASE input.t = "array" -> Len(input.items) > 0
      [] input.t = "object" -> Len(input.props) > 0
      [] OTHER -> FALSE

\* Object.prototype.toString.call(input).slice(8, -1)
ClassName(input) ==
    CASE input.t = "array" -> S_Array
      [] input.t = "regexp" -> S_RegExp
      [] OTHER -> S_Object

getType(input) ==
    IF TypeOf(input) # <<"o","b","j","e","c","t">> THEN TypeOf(input)
    ELSE IF input.t = "null" THEN S_null
    ELSE IF IsArrayLike(input) THEN S_arraylike
    ELSE IF HasEnumerableKey(input) THEN S_objectlike
    ELSE ClassName(input)

-----------------------------------------------------------------------------
(* json-validator.js: JSONCheck *)

\* the bug of requiring every alternative to pass (.every for .some)
AnyTrue_Every(outs) ==
    IF \E i \in 1..Len(outs) : outs[i] = TypeError THEN TypeError
    ELSE Out(\A i \in 1..Len(outs) : outs[i] = "true")

\* outs.filter(v => v == true).length > 0, an exception of any call escaping
AnyTrue(outs) ==
    IF \E i \in 1..Len(outs) : outs[i] = TypeError THEN TypeError
    ELSE Out(\E i \in 1..Len(outs) : outs[i] = "true")

\* outs.filter(v => v == false).length == 0, an exception of any call escaping
NoneFalse(outs) ==
    IF \E i \in 1..Len(outs) : outs[i] = TypeError THEN TypeError
    ELSE Out(\A i \in 1..Len(outs) : outs[i] # "false")

\* the number of rounds of for(let i = 0; i < validatorItemArr.length; i++)
LoopCount(validatorItemArr) ==
    LET n == ToNumber(Get(validatorItemArr, S_length))
    IN  IF n.t = "number" /\ n.n > 0 THEN n.n ELSE 0

\* the bug of validator.replace('"', ''): only the first quote goes
StripQuotes_FirstOnly(s) ==
    LET i == IndexOf(s, "\"")
    IN  IF i = -1 THEN s ELSE SubSeq(s, 1, i) \o SubSeq(s, i + 2, Len(s))

\* validator.split('"').join('')
StripQuotes(s) == Join(Split(s, "\""), <<>>)

\* the bug of comparing with the validator's type, not with the validator
TypeCompare_ValidatorType(inputType, v) == Out(inputType = getType(v))

\* if(inputType === validator) {return true} else {return false}
TypeCompare(inputType, v) == Out(inputType = v.s)

\* getType(v) == 'RegExp' && v.toString() === '/each/'
IsEachMarker(v) == getType(v) = S_RegExp /\ JSString(v) = S_each

\* validator.indexOf('|') != -1 for a string validator
IsUnionString(v) == getType(v) = S_string /\ IndexOf(v.s, "|") # -1

\* the bug of splitting at the first pipe only: 'a|b|c' gives ['a', 'b|c']
SplitUnion_FirstPipe(v) ==
    LET i == IndexOf(v.s, "|")
    IN  Arr(<<Str(SubSeq(v.s, 1, i)), Str(SubSeq(v.s, i + 2, Len(v.s)))>>)

\* validator = validator.split('|')
SplitUnion(v) == Arr([i \in 1..Len(Split(v.s, "|")) |-> Str(Split(v.s, "|")[i])])

RECURSIVE JSONCheck(_, _), Candidate(_, _), ObjectLoop(_, _, _)

\* the callback of validator.map at an array-like input: one candidate
Candidate(input, validatorItemArr) ==
    IF validatorItemArr.t \in {"undefined", "null"} THEN TypeError
    ELSE IF IsEachMarker(Get(validatorItemArr, <<"0">>)) THEN
        \* validatorItemArr.slice and inputData.map exist on arrays only
        IF validatorItemArr.t # "array" \/ input.t # "array" THEN TypeError
        ELSE LET validations == Tail(validatorItemArr.items)
                 mapRes == [j \in 1..Len(input.items) |->
                     AnyTrue([m \in 1..Len(validations) |->
                         JSONCheck(input.items[j], validations[m])])]
             IN  NoneFalse(mapRes)
    ELSE IF getType(validatorItemArr) = S_string
         THEN JSONCheck(input, validatorItemArr)
    ELSE LET validArr == [i \in 1..LoopCount(validatorItemArr) |->
                 JSONCheck(Get(input, IntToString(i - 1)),
                           Get(validatorItemArr, IntToString(i - 1)))]
         IN  NoneFalse(validArr)

\* for(var k in validator), from the i-th property on
ObjectLoop(input, props, i) ==
    IF i > Len(props) THEN "true"
    ELSE LET valid == JSONCheck(Get(input, props[i].k), props[i].v)
         IN  IF valid = "true" THEN ObjectLoop(input, props, i + 1) ELSE valid

JSONCheck(input, validator0) ==
    LET inputType == getType(input)
        v == IF IsUnionString(validator0) THEN SplitUnion(validator0) ELSE validator0
        validatorType == getType(v)
    IN  IF validatorType = S_objectlike THEN
            IF inputType # S_objectlike THEN "false"
            ELSE ObjectLoop(input, v.props, 1)
        ELSE IF validatorType = S_arraylike THEN
            \* validator.map exists on arrays only
            IF v.t # "array" THEN TypeError
            ELSE IF inputType = S_arraylike
                 THEN AnyTrue([i \in 1..Len(v.items) |-> Candidate(input, v.items[i])])
            ELSE AnyTrue([i \in 1..Len(v.items) |-> JSONCheck(input, v.items[i])])
        ELSE IF validatorType = S_string /\ IndexOf(v.s, "\"") = -1
             THEN TypeCompare(inputType, v)
        ELSE IF validatorType = S_string
             THEN Out(StrictEquals(input, Str(StripQuotes(v.s))))
        ELSE Out(StrictEquals(input, v))

-----------------------------------------------------------------------------
(* JSON.stringify and JSON.parse, as stringEncoder uses them *)

BS == "\\"
NL == "\n"

Thrown(name) == [t |-> "throw", name |-> name]
IsThrown(v) == v.t = "throw"

\* the escape of one character inside a JSON string
EscapeChar(c) ==
    IF c = Q THEN <<BS, Q>>
    ELSE IF c = BS THEN <<BS, BS>>
    ELSE IF c = NL THEN <<BS, "n">>
    ELSE <<c>>

\* the JSON text of a string: quoted and escaped
QuoteJSON(s) == <<Q>> \o Join([i \in 1..Len(s) |-> EscapeChar(s[i])], <<>>) \o <<Q>>

\* JSON.stringify(v) of a value made of strings, numbers, booleans, null,
\* undefined, arrays and objects
RECURSIVE JSONStringify(_)
JSONStringify(v) ==
    CASE v.t = "string" -> QuoteJSON(v.s)
      [] v.t = "number" -> IntToString(v.n)
      [] v.t = "boolean" -> IF v.b THEN S_true ELSE S_false
      [] v.t = "array" ->
            <<"[">> \o Join([i \in 1..Len(v.items) |->
                                IF v.items[i].t = "undefined" THEN S_null
                                ELSE JSONStringify(v.items[i])], <<",">>) \o <<"]">>
      [] v.t = "object" ->
            LET kept == SelectSeq(v.props, LAMBDA p : p.v.t # "undefined")
            IN  <<"{">> \o Join([i \in 1..Len(kept) |->
                                    QuoteJSON(kept[i].k) \o <<":">>
                                        \o JSONStringify(kept[i].v)], <<",">>) \o <<"}">>
      [] v.t = "regexp" -> <<"{", "}">>
      [] OTHER -> S_null

Fail == [ok |-> FALSE]
Parsed(val, next) == [ok |-> TRUE, val |-> val, next |-> next]

CharAt(s, i) == IF i >= 1 /\ i <= Len(s) THEN s[i] ELSE ""

\* s has the characters of word at position i
StartsWith(s, i, word) ==
    i + Len(word) - 1 <= Len(s) /\ SubSeq(s, i, i + Len(word) - 1) = word

\* the character an escape \e stands for, "" when the parser rejects it
Unescape(e) ==
    IF e \in {Q, BS, "/"} THEN e ELSE IF e = "n" THEN NL ELSE ""

\* the rest of a JSON string from position i, acc being what was read
RECURSIVE ParseStringBody(_, _, _)
ParseStringBody(s, i, acc) ==
    IF i > Len(s) \/ s[i] = NL THEN Fail
    ELSE IF s[i] = Q THEN Parsed(acc, i + 1)
    ELSE IF s[i] = BS THEN
        IF Unescape(CharAt(s, i + 1)) = "" THEN Fail
        ELSE ParseStringBody(s, i + 2, Append(acc, Unescape(CharAt(s, i + 1))))
    ELSE ParseStringBody(s, i + 1, Append(acc, s[i]))

\* the end of the run of digits that starts at i
RECURSIVE DigitsEnd(_, _)
DigitsEnd(s, i) == IF IsDigit(CharAt(s, i)) THEN DigitsEnd(s, i + 1) ELSE i

\* a JSON integer at position i
ParseNumber(s, i) ==
    LET from == IF CharAt(s, i) = "-" THEN i + 1 ELSE i
        to == DigitsEnd(s, from)
    IN  IF to = from \/ (to > from + 1 /\ s[from] = "0") THEN Fail
        ELSE Parsed(StringToNumber(SubSeq(s, i, to - 1)), to)

RECURSIVE ParseValue(_, _), ParseElements(_, _, _), ParseMembers(_, _, _)

\* the JSON value at position i
ParseValue(s, i) ==
    LET c == CharAt(s, i)
    IN  IF c = Q THEN
            LET r == ParseStringBody(s, i + 1, <<>>)
            IN  IF r.ok THEN Parsed(Str(r.val), r.next) ELSE Fail
        ELSE IF c = "[" THEN
            IF CharAt(s, i + 1) = "]" THEN Parsed(Arr(<<>>), i + 2)
            ELSE ParseElements(s, i + 1, <<>>)
        ELSE IF c = "{" THEN
            IF CharAt(s, i + 1) = "}" THEN Parsed(Obj(<<>>), i + 2)
            ELSE ParseMembers(s, i + 1, <<>>)
        ELSE IF StartsWith(s, i, S_null) THEN Parsed(Null, i + 4)
        ELSE IF StartsWith(s, i, S_true) THEN Parsed(Bool(TRUE), i + 4)
        ELSE IF StartsWith(s, i, S_false) THEN Parsed(Bool(FALSE), i + 5)
        ELSE ParseNumber(s, i)

\* the elements of an array from position i on, up to its "]"
ParseElements(s, i, acc) ==
    LET r == ParseValue(s, i)
    IN  IF ~r.ok THEN Fail
        ELSE IF CharAt(s, r.next) = "," THEN ParseElements(s, r.next + 1, Append(acc, r.val))
        ELSE IF CharAt(s, r.next) = "]" THEN Parsed(Arr(Append(acc, r.val)), r.next + 1)
        ELSE Fail

\* props with the value of key k set: a repeated key keeps its first place
\* (JSON.stringify wrote the keys in for-in order, so they are read in it)
SetProp(props, k, val) ==
    IF HasOwn(props, k)
    THEN [i \in 1..Len(props) |-> IF props[i].k = k THEN Prop(k, val) ELSE props[i]]
    ELSE Append(props, Prop(k, val))

\* the members of an object from position i on, up to its "}"
ParseMembers(s, i, acc) ==
    LET key == IF CharAt(s, i) = Q THEN ParseStringBody(s, i + 1, <<>>) ELSE Fail
    IN  IF ~key.ok \/ CharAt(s, key.next) # ":" THEN Fail
        ELSE LET r == ParseValue(s, key.next + 1)
             IN  IF ~r.ok THEN Fail
                 ELSE IF CharAt(s, r.next) = ","
                      THEN ParseMembers(s, r.next + 1, SetProp(acc, key.val, r.val))
                 ELSE IF CharAt(s, r.next) = "}"
                      THEN Parsed(Obj(SetProp(acc, key.val, r.val)), r.next + 1)
                 ELSE Fail

\* JSON.parse(text): the value, or a SyntaxError
JSONParse(text) ==
    LET r == ParseValue(text, 1)
    IN  IF r.ok /\ r.next = Len(text) + 1 THEN r.val ELSE Thrown("SyntaxError")

-----------------------------------------------------------------------------
(* stringEncoder.js: encode and decode *)

\* typeChars[type], "" when the type has no entry
TypeChar(type) ==
    CASE type = S_string -> "s"
      [] type = S_boolean -> "b"
      [] type = S_number -> "n"
      [] type = S_null -> "N"
      [] type = S_undefined -> "u"
      [] type \in {S_Object, S_objectlike} -> "o"
      [] type \in {S_Array, S_arraylike} -> "a"
      [] OTHER -> ""

\* the exception that leaves a map or a loop: the first one raised
FirstThrown(vals) ==
    vals[CHOOSE i \in 1..Len(vals) :
            IsThrown(vals[i]) /\ \A j \in 1..(i - 1) : ~IsThrown(vals[j])]

AnyThrown(vals) == \E i \in 1..Len(vals) : IsThrown(vals[i])

RECURSIVE encode(_)
encode(d) ==
    LET prefixChar == TypeChar(getType(d))
    IN  IF prefixChar \in {"s", "b", "n", "N", "u"}
        THEN Str(<<prefixChar>> \o JSString(d))
        ELSE IF prefixChar = "a" THEN
            \* data.map exists on arrays only
            IF d.t # "array" THEN Thrown(TypeError)
            ELSE LET step1 == [i \in 1..Len(d.items) |-> encode(d.items[i])]
                 IN  IF AnyThrown(step1) THEN FirstThrown(step1)
                     ELSE Str(<<"a">> \o JSONStringify(Arr(step1)))
        ELSE IF prefixChar = "o" THEN
            LET encodedV == [i \in 1..Len(d.props) |-> encode(d.props[i].v)]
                step1 == [i \in 1..Len(d.props) |-> Prop(d.props[i].k, encodedV[i])]
            IN  IF AnyThrown(encodedV) THEN FirstThrown(encodedV)
                ELSE Str(<<"o">> \o JSONStringify(Obj(step1)))
        ELSE Undef

\* the properties for(let k in step1) visits
ForIn(step1) ==
    CASE step1.t = "object" -> step1.props
      [] step1.t = "array" ->
            [i \in 1..Len(step1.items) |-> Prop(IntToString(i - 1), step1.items[i])]
      [] step1.t = "string" ->
            [i \in 1..Len(step1.s) |-> Prop(IntToString(i - 1), Str(<<step1.s[i]>>))]
      [] OTHER -> <<>>

\* output = data === 'true' ? true : false
DecodeBoolean(s) == Bool(s = S_true)

RECURSIVE decode(_)
decode(dataStr) ==
    IF dataStr.t \in {"null", "undefined"} THEN Null
    \* dataStr.charAt exists on strings only
    ELSE IF dataStr.t # "string" THEN Thrown(TypeError)
    ELSE LET prefixChar == CharAt(dataStr.s, 1)
             d == SubSeq(dataStr.s, 2, Len(dataStr.s))
         IN  CASE prefixChar = "s" -> Str(d)
               [] prefixChar = "b" -> DecodeBoolean(d)
               [] prefixChar = "n" -> StringToNumber(d)
               [] prefixChar = "N" -> Null
               [] prefixChar = "u" -> Undef
               [] prefixChar = "a" ->
                    LET step1 == JSONParse(d)
                    IN  IF IsThrown(step1) THEN step1
                        \* step1.map exists on arrays only
                        ELSE IF step1.t # "array" THEN Thrown(TypeError)
                        ELSE LET step2 == [i \in 1..Len(step1.items) |->
                                              decode(step1.items[i])]
                             IN  IF AnyThrown(step2) THEN FirstThrown(step2)
                                 ELSE Arr(step2)
               [] prefixChar = "o" ->
                    LET step1 == JSONParse(d)
                    IN  IF IsThrown(step1) THEN step1
                        ELSE LET props == ForIn(step1)
                                 decodedV == [i \in 1..Len(props) |-> decode(props[i].v)]
                             IN  IF AnyThrown(decodedV) THEN FirstThrown(decodedV)
                                 ELSE Obj([i \in 1..Len(props) |->
                                              Prop(props[i].k, decodedV[i])])
               [] OTHER -> Undef

-----------------------------------------------------------------------------
(* The explored inputs and validators *)

K_a == <<"a">>
K_b == <<"b">>
K_0 == <<"0">>
S_a == <<"a">>
S_ab == <<"a","b">>
S_a_pipe_b == <<"a","|","b">>

\* all sequences over S of length 0..n
SeqsUpTo(S, n) == UNION {[1..m -> S] : m \in 0..n}

InputScalars ==
    {Undef, Null, Bool(TRUE), Num(1), NaN, Str(S_a), Str(S_ab), Str(S_a_pipe_b)}

InputElems == {Num(1), Str(S_a), Undef}

InputArrays ==
    {Arr(items) : items \in SeqsUpTo(InputElems, MaxArrLen)}
        \cup {Arr(<<Arr(<<Num(1)>>)>>), Arr(<<Obj(<<Prop(K_a, Str(S_a))>>), Obj(<<>>)>>)}

InputObjects ==
    {Obj(<<>>)}
        \cup {Obj(<<Prop(K_a, x)>>) : x \in InputElems \cup {Arr(<<Num(1)>>), Arr(<<>>)}}
        \cup {Obj(<<Prop(K_a, x), Prop(K_b, y)>>) : x, y \in {Num(1), Str(S_a)}}
        \cup {Obj(<<Prop(K_b, Num(1))>>),
              Obj(<<Prop(K_0, Str(S_a))>>),
              Obj(<<Prop(K_0, Str(S_a)), Prop(S_length, Num(1))>>),
              Obj(<<Prop(K_0, Num(1)), Prop(K_a, Str(S_a)), Prop(S_length, Num(1))>>),
              Obj(<<Prop(K_a, Num(1)), Prop(S_length, Num(4))>>),
              Obj(<<Prop(K_a, Obj(<<Prop(K_0, Num(1)), Prop(S_length, Num(1))>>))>>),
              Obj(<<Prop(S_length, Num(1))>>)}

Inputs == InputScalars \cup InputArrays \cup InputObjects

TypeNames ==
    {S_undefined, S_boolean, S_number, S_string, S_null, S_arraylike,
     S_objectlike, S_Array, S_Object, S_RegExp}

\* strings with a quote and no pipe: '"a"', '"1"', 'a"b"', '"', '""'
QuotedStrings ==
    {<<Q, "a", Q>>, <<Q, "1", Q>>, <<"a", Q, "b", Q>>, <<Q>>, <<Q, Q>>}

\* strings with neither pipe nor quote that name no type
PlainStrings == {<<>>, S_a}

PipeFreeStrings == TypeNames \cup QuotedStrings \cup PlainStrings

\* the alternatives the explored union strings are joined from
UnionParts == {S_undefined, S_number, S_string, S_arraylike, S_Array,
               <<Q, "a", Q>>, <<Q, "b">>, <<>>}

UnionStrings == {a \o <<"|">> \o b : a, b \in UnionParts}

SchemaStrings == PipeFreeStrings \cup UnionStrings

EachMarker == RegExp(<<"e","a","c","h">>)

EachClauses ==
    {Arr(<<EachMarker>>),
     Arr(<<EachMarker, Str(S_number)>>),
     Arr(<<EachMarker, Str(S_number), Str(S_string)>>),
     Arr(<<EachMarker, Str(S_undefined), Obj(<<Prop(K_a, Str(S_string))>>)>>)}

TupleClauses ==
    {Arr(<<>>),
     Arr(<<Str(S_number)>>),
     Arr(<<Str(S_undefined)>>),
     Arr(<<Str(S_number), Str(S_string)>>),
     Arr(<<Str(S_number), Str(S_string \o <<"|">> \o S_undefined)>>)}

\* entries that are none of each-clause, schema string or sequence
MalformedEntries ==
    {Null, Undef, Num(1), EachMarker,
     Obj(<<Prop(K_a, Str(S_string))>>)}

ListEntries ==
    {Str(S_number), Str(S_arraylike), Str(S_Array), Str(S_objectlike)}
        \cup EachClauses \cup TupleClauses \cup MalformedEntries

ListSchemas == {Arr(items) : items \in SeqsUpTo(ListEntries, MaxListLen)}

FieldSchemas ==
    {Str(S_string), Str(S_number), Str(S_undefined),
     Str(S_undefined \o <<"|">> \o S_string), Str(<<Q, "a", Q>>),
     Arr(<<Null>>), Arr(<<Arr(<<EachMarker, Str(S_number)>>)>>)}

ObjectSchemas ==
    {Obj(<<>>)}
        \cup {Obj(<<Prop(K_a, f)>>) : f \in FieldSchemas}
        \cup {Obj(<<Prop(K_a, f), Prop(K_b, g)>>) : f, g \in {Str(S_string), Str(S_number), Str(S_undefined)}}
        \cup {Obj(<<Prop(K_0, Str(S_string))>>)}

\* alternatives next to an object schema whose field is a candidate list
NestedLists ==
    {Arr(<<Str(S_objectlike), Obj(<<Prop(K_a, Arr(<<Null>>))>>)>>),
     Arr(<<Str(S_objectlike),
           Obj(<<Prop(K_a, Arr(<<Arr(<<EachMarker, Str(S_number)>>)>>))>>)>>),
     Arr(<<Obj(<<Prop(K_a, Arr(<<Null>>))>>), Str(S_objectlike)>>),
     Arr(<<Obj(<<Prop(K_a, Str(S_string))>>), Obj(<<Prop(K_b, Str(S_number))>>)>>)}

Validators ==
    {Str(s) : s \in SchemaStrings}
        \cup {Null, Undef, Num(1), Bool(TRUE), EachMarker}
        \cup ListSchemas \cup ObjectSchemas \cup NestedLists

-----------------------------------------------------------------------------
(* Specification of the validator: one call of JSONCheck on any explored     *)
(* input and validator                                                       *)

Idle == "idle"
NoValue == [t |-> "none"]

\* the functions that are not called keep their state empty
NoEqualsCall == argA = NoValue /\ argB = NoValue /\ equal = Idle
NoCloneCall ==
    /\ heap = <<>> /\ cloneInput = NoValue /\ clone = NoValue
    /\ typeList = <<>> /\ keyList = <<>> /\ valList = <<>>
NoDescent == descent = NoValue

Init ==
    /\ inputData \in Inputs
    /\ validator \in Validators
    /\ result = Idle
    /\ data = NoValue
    /\ encoded = NoValue
    /\ decoded = NoValue
    /\ NoEqualsCall /\ NoCloneCall /\ NoDescent

\* result = JSONCheck(inputData, validator)
CallJSONCheck ==
    /\ result = Idle
    /\ result' = JSONCheck(inputData, validator)
    /\ UNCHANGED <<inputData, validator, data, encoded, decoded,
                   equalsVars, cloneVars, descent>>

Next == CallJSONCheck

Spec == Init /\ [][Next]_vars

Called == result # Idle

TypeOK ==
    /\ inputData \in Inputs
    /\ validator \in Validators
    /\ result \in {Idle, "true", "false", TypeError}

-----------------------------------------------------------------------------
(* Vocabulary of the properties *)

\* a sequence value: an array, the empty one included
IsSequence(x) == x.t = "array"

\* a keyed value: a plain object, the one without keys included
IsKeyed(x) == x.t = "object"

IsEachClause(c) == c.t = "array" /\ Len(c.items) >= 1 /\ c.items[1] = EachMarker

IsTupleClause(c) == c.t = "array" /\ ~IsEachClause(c)

\* x || y of two calls: y is not evaluated when x is true
OrElse(x, y) == IF x = "false" THEN y ELSE x

\* s without its quote characters
WithoutQuotes(s) == SelectSeq(s, LAMBDA c : c # Q)

HasChar(s, c) == \E i \in 1..Len(s) : s[i] = c

\* input[i] of a sequence, undefined past its end (i counts from 1)
ElementAt(x, i) == IF i <= Len(x.items) THEN x.items[i] ELSE Undef

Keys(props) == {props[i].k : i \in 1..Len(props)}

\* the object with one more key/value pair
WithProp(x, k, e) == Obj(Append(x.props, Prop(k, e)))

ExtraKeys == {K_a, K_b, <<"c">>, S_length}

-----------------------------------------------------------------------------
(* C1 - Each-clause quantifier: for every sequence input, the empty one     *)
(* included, JSONCheck(input, [[/each/, s1, ..., sn]]) is true iff every    *)
(* element of input satisfies JSONCheck(e, si) for at least one si.         *)
C1_EachQuantifier ==
    (/\ Called
     /\ IsSequence(inputData)
     /\ validator.t = "array" /\ Len(validator.items) = 1
     /\ IsEachClause(validator.items[1]))
    => LET subs == Tail(validator.items[1].items)
       IN  result = Out(\A j \in 1..Len(inputData.items) :
                            \E m \in 1..Len(subs) :
                                JSONCheck(inputData.items[j], subs[m]) = "true")

(* C2 - Missing-key law: for every object schema {k: s} and every keyed     *)
(* input without key k, the input with no keys included,                    *)
(* JSONCheck(input, {k: s}) equals JSONCheck(undefined, s).                 *)
C2_MissingKey ==
    (/\ Called
     /\ IsKeyed(inputData)
     /\ validator.t = "object" /\ Len(validator.props) = 1
     /\ validator.props[1].k \notin Keys(inputData.props))
    => result = JSONCheck(Undef, validator.props[1].v)

(* C3 - Extra keys are ignored: for every object schema S and every keyed   *)
(* input, adding a key/value pair whose key does not occur in S never       *)
(* changes the result of JSONCheck(input, S).                               *)
C3_ExtraKeysIgnored ==
    (Called /\ IsKeyed(inputData) /\ validator.t = "object")
    => \A k \in ExtraKeys \ (Keys(validator.props) \cup Keys(inputData.props)) :
           \A e \in InputElems :
               JSONCheck(WithProp(inputData, k, e), validator) = result

(* C4 (as stated) - Literal matching: for every schema string that contains *)
(* quote characters, JSONCheck(x, schema) is true iff x === the schema      *)
(* string with all its quote characters removed.                            *)
C4_LiteralAnyQuoted ==
    (Called /\ validator.t = "string" /\ HasChar(validator.s, Q))
    => result = Out(inputData = Str(WithoutQuotes(validator.s)))

(* C4 (amended) - Literal matching: for every schema string that contains   *)
(* quote characters and no pipe, JSONCheck(x, schema) is true iff x === the *)
(* schema string with all its quote characters removed.                     *)
C4_LiteralPipeFree ==
    (/\ Called /\ validator.t = "string"
     /\ HasChar(validator.s, Q) /\ ~HasChar(validator.s, "|"))
    => result = Out(inputData = Str(WithoutQuotes(validator.s)))

\* a literal with an inner quote matched the string it spells without quotes
C4_Witness ==
    /\ Called
    /\ validator = Str(<<"a", Q, "b", Q>>)
    /\ inputData = Str(S_ab)
    /\ result = "true"

(* C5 - Totality: for every input and every schema, well-formed or          *)
(* malformed, JSONCheck returns true or false and never throws.             *)
C5_NeverThrows == Called => result \in {"true", "false"}

(* C6 - Type-name matching: for every input x and every schema string t     *)
(* with no pipe and no quote, JSONCheck(x, t) is true iff getType(x) = t.   *)
C6_TypeName ==
    (/\ Called /\ validator.t = "string"
     /\ ~HasChar(validator.s, "|") /\ ~HasChar(validator.s, Q))
    => result = Out(getType(inputData) = validator.s)

\* the empty array was checked against the name getType gives it
C6_Witness ==
    /\ Called
    /\ inputData = Arr(<<>>)
    /\ validator = Str(S_Array)
    /\ result = "true"

(* C7 - Union law: for every input x and all pipe-free strings a and b,     *)
(* JSONCheck(x, 'a|b') equals JSONCheck(x, 'a') || JSONCheck(x, 'b').       *)
C7_Union ==
    (Called /\ validator.t = "string")
    => \A i \in 1..Len(validator.s) :
           LET a == SubSeq(validator.s, 1, i - 1)
               b == SubSeq(validator.s, i + 1, Len(validator.s))
           IN  (validator.s[i] = "|" /\ ~HasChar(a, "|") /\ ~HasChar(b, "|"))
               => result = OrElse(JSONCheck(inputData, Str(a)),
                                  JSONCheck(inputData, Str(b)))

\* a sequence passed the union by its second alternative only
C7_Witness ==
    /\ Called
    /\ validator = Str(S_number \o <<"|">> \o S_arraylike)
    /\ inputData = Arr(<<Num(1), Str(S_a)>>)
    /\ JSONCheck(inputData, Str(S_number)) = "false"
    /\ result = "true"

(* C8 - Tuple law: for a sequence input and a tuple candidate c in a        *)
(* candidate list, the candidate passes iff JSONCheck(input[i], c[i]) holds *)
(* for every index i of c, input[i] being undefined past the end of the     *)
(* input; appending elements to an input at least as long as c never turns  *)
(* a pass into a failure.                                                   *)
C8_Tuple ==
    (/\ Called
     /\ IsSequence(inputData)
     /\ validator.t = "array" /\ Len(validator.items) = 1
     /\ IsTupleClause(validator.items[1]))
    => LET c == validator.items[1].items
       IN  /\ result = Out(\A i \in 1..Len(c) :
                               JSONCheck(ElementAt(inputData, i), c[i]) = "true")
           /\ (result = "true" /\ Len(inputData.items) >= Len(c))
              => \A e \in InputElems :
                     JSONCheck(Arr(Append(inputData.items, e)), validator) = "true"

(* C9 - Alternation law: for every schema list [s1, s2],                    *)
(* JSONCheck(x, [s1, s2]) equals JSONCheck(x, s1) || JSONCheck(x, s2)       *)
(* whenever x is not a sequence, and whenever x is a sequence and s1, s2    *)
(* are schema strings.                                                      *)
C9_Alternation ==
    (/\ Called
     /\ validator.t = "array" /\ Len(validator.items) = 2
     /\ \/ ~(IsSequence(inputData) \/ getType(inputData) = S_arraylike)
        \/ \A i \in 1..2 : validator.items[i].t = "string")
    => result = OrElse(JSONCheck(inputData, validator.items[1]),
                       JSONCheck(inputData, validator.items[2]))

-----------------------------------------------------------------------------
(* Specification of the encoder: encode an explored value, then decode the  *)
(* string                                                                   *)

EncScalars ==
    {Str(<<>>), Str(S_a), Str(S_false), Str(<<"u">> \o S_undefined),
     Str(<<"a", Q, BS, ",", NL>>), Str(<<"1", "2">>),
     Bool(TRUE), Bool(FALSE), Num(0), Num(-12), Num(305), NaN, Null, Undef}

EncElems == {Str(S_false), Bool(FALSE), Num(-12), Undef, Str(<<Q, BS>>)}

EncArrays == {Arr(items) : items \in SeqsUpTo(EncElems, MaxArrLen)}

EncObjects ==
    {Obj(<<>>)}
        \cup {Obj(<<Prop(K_a, x)>>) : x \in EncElems \cup {Null}}
        \cup {Obj(<<Prop(K_a, x), Prop(<<"b", Q, " ">>, y)>>) : x, y \in EncElems}
        \cup {Obj(<<Prop(K_0, Str(S_a)), Prop(K_a, Num(0))>>),
              Obj(<<Prop(K_a, Num(24)), Prop(S_length, Num(4))>>)}

\* plain objects that getType calls arraylike
EncArrayLikeObjects ==
    {Obj(<<Prop(K_0, Str(S_a)), Prop(S_length, Num(1))>>),
     Obj(<<Prop(K_a, Arr(<<Obj(<<Prop(K_0, Null), Prop(S_length, Num(1))>>)>>))>>)}

EncNested ==
    {Arr(<<Arr(<<>>), Obj(<<>>)>>),
     Arr(<<Arr(<<Num(1), Str(<<",", BS, BS, Q>>)>>), Str(S_NaN)>>),
     Obj(<<Prop(K_a, Arr(<<Bool(FALSE), Str(S_false)>>)),
           Prop(K_b, Obj(<<Prop(K_a, Arr(<<Undef, Null>>))>>))>>),
     Arr(<<Obj(<<Prop(K_a, Arr(<<Obj(<<Prop(K_b, NaN)>>)>>))>>)>>)}

EncoderValues ==
    EncScalars \cup EncArrays \cup EncObjects \cup EncArrayLikeObjects \cup EncNested

InitEncoder ==
    /\ data \in EncoderValues
    /\ encoded = NoValue
    /\ decoded = NoValue
    /\ inputData = NoValue
    /\ validator = NoValue
    /\ result = Idle
    /\ NoEqualsCall /\ NoCloneCall /\ NoDescent

\* encoded = stringEncoder.encode(data)
Encode ==
    /\ data # NoValue
    /\ encoded = NoValue
    /\ encoded' = encode(data)
    /\ UNCHANGED <<data, decoded, inputData, validator, result,
                   equalsVars, cloneVars, descent>>

\* decoded = stringEncoder.decode(encoded); an exception of encode goes on
Decode ==
    /\ encoded # NoValue
    /\ decoded = NoValue
    /\ decoded' = IF IsThrown(encoded) THEN encoded ELSE decode(encoded)
    /\ UNCHANGED <<data, encoded, inputData, validator, result,
                   equalsVars, cloneVars, descent>>

NextEncoder == Encode \/ Decode

SpecEncoder == InitEncoder /\ [][NextEncoder]_vars

RoundTripDone == decoded # NoValue

(* C10 - Encoder round trip: for every value v built from strings,          *)
(* booleans, numbers, null, undefined, arrays and plain objects to any      *)
(* depth, stringEncoder.decode(stringEncoder.encode(v)) is deep-equal to v  *)
(* with the types preserved.                                                *)
C10_RoundTrip == RoundTripDone => decoded = data

-----------------------------------------------------------------------------
(* helpers.js: equals *)

NoJSONCheckCall == inputData = NoValue /\ validator = NoValue /\ result = Idle
NoEncoderCall == data = NoValue /\ encoded = NoValue /\ decoded = NoValue

\* equals(a, b, {noReference}); the two arguments and the containers in them
\* are distinct references, so === holds between primitives only
RECURSIVE equals(_, _, _)
equals(a, b, noReference) ==
    \* NaN check: a !== a and b !== b
    IF a.t = "nan" /\ b.t = "nan" THEN TRUE
    ELSE IF noReference /\ StrictEquals(a, b) THEN FALSE
    ELSE IF getType(a) = S_arraylike /\ getType(b) = S_arraylike THEN
        IF ~StrictEquals(Get(a, S_length), Get(b, S_length)) THEN FALSE
        ELSE \A i \in 1..LoopCount(a) :
                 equals(Get(a, IntToString(i - 1)), Get(b, IntToString(i - 1)), FALSE)
    ELSE IF getType(a) = S_objectlike /\ getType(b) = S_objectlike THEN
        \* for(let key in a)
        \A i \in 1..Len(a.props) :
            equals(a.props[i].v, Get(b, a.props[i].k), FALSE)
    ELSE StrictEquals(a, b)

K_k == <<"k">>
K_j == <<"j">>

EqScalars == {Num(0), Num(1), NaN, Str(<<>>), Str(<<"0">>), Bool(TRUE), Null, Undef}

EqArrays ==
    {Arr(items) : items \in SeqsUpTo({Num(1), NaN}, MaxArrLen)}
        \cup {Arr(<<Num(1), Obj(<<Prop(K_k, Str(S_a))>>)>>)}

EqObjects ==
    {Obj(<<>>),
     Obj(<<Prop(K_k, Num(1))>>),
     Obj(<<Prop(K_k, Num(0))>>),
     Obj(<<Prop(K_k, Undef)>>),
     Obj(<<Prop(K_j, Num(1))>>),
     Obj(<<Prop(K_k, Num(1)), Prop(K_j, Num(0))>>),
     Obj(<<Prop(K_j, Num(0)), Prop(K_k, Num(1))>>),
     Obj(<<Prop(K_k, Num(1)), Prop(K_j, Undef)>>),
     Obj(<<Prop(K_b, Arr(<<Num(1), Num(0)>>)), Prop(K_k, Num(1))>>),
     Obj(<<Prop(K_k, Num(1)), Prop(K_b, Arr(<<Num(1), Num(0)>>))>>),
     Obj(<<Prop(K_k, Obj(<<Prop(K_j, NaN)>>))>>),
     Obj(<<Prop(K_k, Obj(<<Prop(K_j, NaN), Prop(K_b, Null)>>))>>),
     Obj(<<Prop(K_0, Num(1)), Prop(S_length, Num(1))>>)}

EqValues == EqScalars \cup EqArrays \cup EqObjects

InitEquals ==
    /\ argA \in EqValues
    /\ argB \in EqValues
    /\ equal = Idle
    /\ NoJSONCheckCall /\ NoEncoderCall /\ NoCloneCall /\ NoDescent

\* equal = equals(argA, argB)
CallEquals ==
    /\ equal = Idle
    /\ equal' = Out(equals(argA, argB, FALSE))
    /\ UNCHANGED <<argA, argB, inputData, validator, result, data, encoded,
                   decoded, cloneVars, descent>>

NextEquals == CallEquals

SpecEquals == InitEquals /\ [][NextEquals]_vars

(* C11 - Deep equality of objects: for all objects a and b, equals(a, b) is *)
(* true iff a and b contain the same keys and the values under each key are *)
(* recursively equal by equals, whatever the order of the keys; the result  *)
(* does not depend on the order of the two arguments.                       *)
C11_ObjectEquality ==
    (equal # Idle /\ IsKeyed(argA) /\ IsKeyed(argB))
    => /\ equal = Out(/\ Keys(argA.props) = Keys(argB.props)
                      /\ \A k \in Keys(argA.props) :
                             equals(Get(argA, k), Get(argB, k), FALSE))
       /\ equal = Out(equals(argB, argA, FALSE))

-----------------------------------------------------------------------------
(* helpers.js: objDeepClone *)

(* The input of objDeepClone is a graph: heap[id] is an array or an object   *)
(* whose items are primitives or references Ref(id) to the arrays and        *)
(* objects of the heap, so that two places can hold the same object and an   *)
(* object can contain itself.  The clone is a value without references.      *)
Ref(id) == [t |-> "ref", id |-> id]

\* the array or object a reference points to; a primitive is itself
Deref(h, v) == IF v.t = "ref" THEN h[v.id] ELSE v

\* list.indexOf(v) !== -1: by ===, which is identity on arrays and objects
ListHas(list, v) ==
    \E i \in 1..Len(list) : StrictEquals(list[i], v) \/ (v.t = "ref" /\ list[i] = v)

S_circular ==
    <<"c","i","r","c","u","l","a","r","-","r","e","f","e","r","e","n","c","e">>
CircularMarker == Str(<<"<">> \o S_circular \o <<">">>)

\* a call's return value and the valArr it leaves behind (valArr is one array
\* that every recursive call pushes to)
Returned(val, valArr) == [val |-> val, valArr |-> valArr]

\* the test both loops make before cloning a value
\*   typeList.indexOf(getType(val)) === -1 && valList.indexOf(val) === -1
\*   and not (noCircular && valArr.indexOf(val) !== -1)
Wanted(h, val, tl, vl, valArr) ==
    /\ ~ListHas(tl, Str(getType(Deref(h, val))))
    /\ ~ListHas(vl, val)
    /\ ~(ListHas(tl, Str(S_circular)) /\ ListHas(valArr, val))

RECURSIVE objDeepClone(_, _, _, _, _, _),
          CloneArrayLoop(_, _, _, _, _, _, _, _),
          CloneObjectLoop(_, _, _, _, _, _, _, _)

\* for(let i = 0, len = input.length; i < len; i++), from index i on;
\* arr is the array built so far
CloneArrayLoop(h, input, tl, kl, vl, valArr, i, arr) ==
    IF i >= LoopCount(Deref(h, input)) THEN Returned(Arr(arr), valArr)
    ELSE LET val == Get(Deref(h, input), IntToString(i))
         IN  IF Wanted(h, val, tl, vl, valArr)
             THEN LET r == objDeepClone(h, val, tl, kl, vl, valArr)
                  IN  CloneArrayLoop(h, input, tl, kl, vl, r.valArr, i + 1,
                                     Append(arr, r.val))
             ELSE CloneArrayLoop(h, input, tl, kl, vl, valArr, i + 1, arr)

\* for(let k in input), from the i-th property on; obj is the object so far
CloneObjectLoop(h, input, tl, kl, vl, valArr, i, obj) ==
    LET props == Deref(h, input).props
    IN  IF i > Len(props) THEN Returned(Obj(obj), valArr)
        ELSE IF ListHas(kl, Str(props[i].k))
             THEN CloneObjectLoop(h, input, tl, kl, vl, valArr, i + 1, obj)
        ELSE IF Wanted(h, props[i].v, tl, vl, valArr)
             THEN LET r == objDeepClone(h, props[i].v, tl, kl, vl, valArr)
                  IN  CloneObjectLoop(h, input, tl, kl, vl, r.valArr, i + 1,
                                      Append(obj, Prop(props[i].k, r.val)))
        ELSE CloneObjectLoop(h, input, tl, kl, vl, valArr, i + 1, obj)

\* objDeepClone(input, typeList, keyList, valList, valArr)
objDeepClone(h, input, tl, kl, vl, valArr) ==
    LET type == getType(Deref(h, input))
        noCircular == ListHas(tl, Str(S_circular))
        container == type \in {S_arraylike, S_objectlike}
        pushed == IF container THEN Append(valArr, input) ELSE valArr
    IN  IF ListHas(tl, Str(type)) \/ ListHas(vl, input)
        THEN Returned(Undef, valArr)
        ELSE IF container /\ ListHas(valArr, input)
             THEN Returned(IF noCircular THEN Undef ELSE CircularMarker, valArr)
        ELSE IF type = S_null THEN Returned(Null, pushed)
        ELSE IF type = S_arraylike
             THEN CloneArrayLoop(h, input, tl, kl, vl, pushed, 0, <<>>)
        ELSE IF type = S_objectlike
             THEN CloneObjectLoop(h, input, tl, kl, vl, pushed, 1, <<>>)
        \* return input: an empty array or object is returned itself
        ELSE Returned(Deref(h, input), pushed)

-----------------------------------------------------------------------------
(* Specification of objDeepClone: one call on an explored graph with         *)
(* explored filter lists                                                     *)

K_key1 == <<"k","e","y","1">>
K_key2 == <<"k","e","y","2">>
K_hello == <<"h","e","l","l","o">>
K_list == <<"l","i","s","t">>
K_s == <<"s">>
S_world == <<"w","o","r","l","d">>

Graph(h, root) == [heap |-> h, root |-> root]

\* the input of the example in the doc comment of objDeepClone
DocExampleGraph ==
    Graph(<<Obj(<<Prop(K_key1, Func), Prop(K_key2, Null),
                  Prop(K_hello, Str(S_world)), Prop(K_list, Ref(2))>>),
            Arr(<<>>)>>, Ref(1))

\* the self referencing input of objDeepCloneTests: val1 = {k: 2}; val1.s = val1
SelfReferenceGraph == Graph(<<Obj(<<Prop(K_k, Num(2)), Prop(K_s, Ref(1))>>)>>, Ref(1))

ArrayGraphs ==
    {Graph(<<Arr(<<Ref(2), Ref(2)>>), Arr(<<Num(1)>>)>>, Ref(1)),
     Graph(<<Arr(<<Ref(2), Null, Ref(1)>>), Obj(<<Prop(K_a, Ref(1)), Prop(K_b, Ref(3))>>),
             Arr(<<>>)>>, Ref(1)),
     Graph(<<Obj(<<Prop(K_a, Ref(2)), Prop(K_b, Ref(2))>>), Arr(<<>>)>>, Ref(1)),
     Graph(<<Obj(<<Prop(K_a, Ref(2)), Prop(K_b, Ref(3))>>),
             Arr(<<Ref(3), Num(1)>>), Obj(<<Prop(K_k, Null)>>)>>, Ref(1))}

PrimitiveGraphs == {Graph(<<>>, v) : v \in {Null, Undef, Num(1), Str(S_world), Func}}

\* the graphs whose filter lists are varied
ListedGraphs ==
    {DocExampleGraph, SelfReferenceGraph} \cup ArrayGraphs \cup PrimitiveGraphs

\* every graph of n objects {a: x, b: y} with x, y a number or any object
GeneratedGraphs ==
    UNION {{Graph(h, Ref(1)) :
               h \in [1..n -> {Obj(<<Prop(K_a, x), Prop(K_b, y)>>) :
                                   x, y \in {Num(1)} \cup {Ref(i) : i \in 1..n}}]}
           : n \in 1..MaxNodes}

TypeLists ==
    {<<>>, <<Str(S_function), Str(S_Array)>>, <<Str(S_circular)>>, <<Str(S_number)>>}
KeyLists == {<<>>, <<Null>>, <<Str(K_key2)>>, <<Str(K_a)>>}
ValLists == {<<>>, <<Null>>, <<Num(1)>>}

InitClone ==
    /\ \E g \in ListedGraphs \cup GeneratedGraphs :
          /\ heap = g.heap
          /\ cloneInput = g.root
          /\ typeList \in (IF g \in ListedGraphs THEN TypeLists
                           ELSE {<<>>, <<Str(S_circular)>>})
          /\ keyList \in (IF g \in ListedGraphs THEN KeyLists ELSE {<<>>})
          /\ valList \in (IF g \in ListedGraphs THEN ValLists ELSE {<<>>})
    /\ clone = NoValue
    /\ NoJSONCheckCall /\ NoEncoderCall /\ NoEqualsCall /\ NoDescent

\* clone = objDeepClone(cloneInput, typeList, keyList, valList)
CallObjDeepClone ==
    /\ clone = NoValue
    /\ clone' = objDeepClone(heap, cloneInput, typeList, keyList, valList, <<>>).val
    /\ UNCHANGED <<heap, cloneInput, typeList, keyList, valList, inputData,
                   validator, result, data, encoded, decoded, equalsVars, descent>>

NextClone == CallObjDeepClone

SpecClone == InitClone /\ [][NextClone]_vars

Cloned == clone # NoValue

(* C12 - objDeepClone filter arguments: called as                           *)
(* objDeepClone(input, typeList, valList), with the list of values as the    *)
(* third argument, every key of input whose type is in typeList or whose     *)
(* value is in that list is omitted from the clone; the example of the doc   *)
(* comment returns {hello: 'world'}.                                         *)
C12_FilterArguments ==
    LET third == keyList
        in == Deref(heap, cloneInput)
    IN  (Cloned /\ valList = <<>> /\ getType(in) = S_objectlike /\ clone.t = "object")
        => /\ \A i \in 1..Len(in.props) :
                  (\/ ListHas(typeList, Str(getType(Deref(heap, in.props[i].v))))
                   \/ ListHas(third, in.props[i].v))
                  => in.props[i].k \notin Keys(clone.props)
           /\ (/\ Graph(heap, cloneInput) = DocExampleGraph
               /\ typeList = <<Str(S_function), Str(S_Array)>>
               /\ third = <<Null>>)
              => clone = Obj(<<Prop(K_hello, Str(S_world))>>)

\* the clone the doc comment describes: an array or object is replaced by the
\* marker where it is one of its own ancestors, and copied anywhere else
RECURSIVE MarkedCopy(_, _, _)
MarkedCopy(h, v, ancestors) ==
    IF v.t # "ref" THEN v
    ELSE IF v \in ancestors THEN CircularMarker
    ELSE LET c == h[v.id]
             below == ancestors \cup {v}
         IN  IF c.t = "array"
             THEN Arr([i \in 1..Len(c.items) |-> MarkedCopy(h, c.items[i], below)])
             ELSE Obj([i \in 1..Len(c.props) |->
                          Prop(c.props[i].k, MarkedCopy(h, c.props[i].v, below))])

(* C13 - objDeepClone circular references: with the default filter lists,   *)
(* objDeepClone returns on every finite input graph, and a nested array or  *)
(* object is replaced by '<circular-reference>' exactly when it is one of   *)
(* its own ancestors on the path from the root; a value referenced from two *)
(* places without a cycle is cloned structurally at both places.            *)
C13_CircularOnly ==
    (Cloned /\ typeList = <<>> /\ keyList = <<>> /\ valList = <<>>)
    => clone = MarkedCopy(heap, cloneInput, {})

-----------------------------------------------------------------------------
(* Malformed entries of a candidate list *)

\* an entry that is none of each-clause, schema string or sequence
IsMalformedEntry(c) == ~IsEachClause(c) /\ c.t # "string" /\ c.t # "array"

\* a candidate list made only of malformed entries, at least one
IsMalformedList(v) ==
    /\ v.t = "array"
    /\ Len(v.items) >= 1
    /\ \A i \in 1..Len(v.items) : IsMalformedEntry(v.items[i])

\* C14: when the input is a sequence and the schema is a candidate list made
\* only of entries that are none of each-clause, schema string or sequence (a
\* keyed object schema, a number, the bare /each/ marker), the call yields
\* false
C14_MalformedNeverPass ==
    (Called /\ IsSequence(inputData) /\ IsMalformedList(validator))
        => result = "false"

-----------------------------------------------------------------------------
(* The calls of JSONCheck: the same function, evaluated on an input that may *)
(* be a reference into the heap, each call recording the calls it made       *)

Max(S) == CHOOSE x \in S : \A y \in S : y <= x

\* the rounds of a map or loop that ran: all, or those up to the one that threw
Ran(rs) ==
    IF \E i \in 1..Len(rs) : rs[i].out = TypeError
    THEN SubSeq(rs, 1, CHOOSE i \in 1..Len(rs) :
                           rs[i].out = TypeError
                               /\ \A j \in 1..(i - 1) : rs[j].out # TypeError)
    ELSE rs

\* the one value of a set of one
Only(S) == CHOOSE x \in S : TRUE

RECURSIVE Concat(_)
Concat(seqs) == IF seqs = <<>> THEN <<>> ELSE Head(seqs) \o Concat(Tail(seqs))

Outs(rs) == [i \in 1..Len(rs) |-> rs[i].out]

\* what a callback or loop hands back: its value and the calls of JSONCheck
\* it made
Made(out, calls) == [out |-> out, calls |-> calls]

\* one call of JSONCheck: its validator, what it returned, how deep the calls
\* below it went, and every <<validator of a call, validator of a call it
\* made>> from it down
Call(v, out, calls) ==
    Only({[validator |-> v,
           out |-> out,
           depth |-> IF made = <<>> THEN 0
                     ELSE 1 + Max({made[i].depth : i \in 1..Len(made)}),
           pairs |-> {<<v, made[i].validator>> : i \in 1..Len(made)}
                         \cup UNION {made[i].pairs : i \in 1..Len(made)}]
          : made \in {calls \o <<>>}})

RECURSIVE JSONCheckCall(_, _, _), CandidateCalls(_, _, _), ObjectLoopCalls(_, _, _, _)

\* the callback of validator.map at an array-like input: one candidate
CandidateCalls(h, input, validatorItemArr) ==
    LET d == Deref(h, input)
    IN  IF validatorItemArr.t \in {"undefined", "null"} THEN Made(TypeError, <<>>)
        ELSE IF IsEachMarker(Get(validatorItemArr, <<"0">>)) THEN
            \* validatorItemArr.slice and inputData.map exist on arrays only
            IF validatorItemArr.t # "array" \/ d.t # "array" THEN Made(TypeError, <<>>)
            ELSE LET validations == Tail(validatorItemArr.items)
                 IN  Only({Made(NoneFalse([j \in 1..Len(rows) |-> AnyTrue(Outs(rows[j]))]),
                                Ran(Concat(rows)))
                           : rows \in {[j \in 1..Len(d.items) |->
                                          [m \in 1..Len(validations) |->
                                              JSONCheckCall(h, d.items[j], validations[m])]
                                              \o <<>>] \o <<>>}})
        ELSE IF getType(validatorItemArr) = S_string
             THEN Only({Made(c.out, <<c>>)
                        : c \in {JSONCheckCall(h, input, validatorItemArr)}})
        ELSE Only({Made(NoneFalse(Outs(validArr)), Ran(validArr))
                   : validArr \in {[i \in 1..LoopCount(validatorItemArr) |->
                                      JSONCheckCall(h, Get(d, IntToString(i - 1)),
                                                    Get(validatorItemArr, IntToString(i - 1)))]
                                      \o <<>>}})

\* for(var k in validator), from the i-th property on
ObjectLoopCalls(h, d, props, i) ==
    IF i > Len(props) THEN Made("true", <<>>)
    ELSE Only({IF c.out # "true" THEN Made(c.out, <<c>>)
               ELSE Only({Made(rest.out, <<c>> \o rest.calls)
                          : rest \in {ObjectLoopCalls(h, d, props, i + 1)}})
               : c \in {JSONCheckCall(h, Get(d, props[i].k), props[i].v)}})

JSONCheckCall(h, input, validator0) ==
    LET d == Deref(h, input)
        inputType == getType(d)
        v == IF IsUnionString(validator0) THEN SplitUnion(validator0) ELSE validator0
        validatorType == getType(v)
    IN  IF validatorType = S_objectlike THEN
            IF inputType # S_objectlike THEN Call(validator0, "false", <<>>)
            ELSE Only({Call(validator0, loop.out, loop.calls)
                       : loop \in {ObjectLoopCalls(h, d, v.props, 1)}})
        ELSE IF validatorType = S_arraylike THEN
            \* validator.map exists on arrays only
            IF v.t # "array" THEN Call(validator0, TypeError, <<>>)
            ELSE IF inputType = S_arraylike
                 THEN Only({Call(validator0, AnyTrue(Outs(valid)),
                                 Concat([i \in 1..Len(Ran(valid)) |-> Ran(valid)[i].calls]))
                            : valid \in {[i \in 1..Len(v.items) |->
                                            CandidateCalls(h, input, v.items[i])] \o <<>>}})
            ELSE Only({Call(validator0, AnyTrue(Outs(calls)), Ran(calls))
                       : calls \in {[i \in 1..Len(v.items) |->
                                       JSONCheckCall(h, input, v.items[i])] \o <<>>}})
        ELSE IF validatorType = S_string /\ IndexOf(v.s, "\"") = -1
             THEN Call(validator0, TypeCompare(inputType, v), <<>>)
        ELSE IF validatorType = S_string
             THEN Call(validator0, Out(StrictEquals(input, Str(StripQuotes(v.s)))), <<>>)
        ELSE Call(validator0, Out(StrictEquals(input, v)), <<>>)

-----------------------------------------------------------------------------
(* Specification of the descent: one call of JSONCheck on an input graph,    *)
(* cyclic ones included, and a nested schema                                 *)

\* the rounds of nesting of the explored schemas
MaxNesting == 2

S_objectlike_or_number == S_objectlike \o <<"|">> \o S_number
S_arraylike_or_number == S_arraylike \o <<"|">> \o S_number
S_three_types == S_number \o <<"|">> \o S_string \o <<"|">> \o S_undefined

\* a = [a], a = [1, a], and o = {s: a} with a = [o]
CyclicGraphs ==
    {SelfReferenceGraph,
     Graph(<<Arr(<<Ref(1)>>)>>, Ref(1)),
     Graph(<<Arr(<<Num(1), Ref(1)>>)>>, Ref(1)),
     Graph(<<Obj(<<Prop(K_s, Ref(2))>>), Arr(<<Ref(1)>>)>>, Ref(1))}

DescentGraphs ==
    CyclicGraphs \cup ArrayGraphs
        \cup {Graph(<<Arr(<<Num(1)>>)>>, Ref(1)),
              Graph(<<Obj(<<Prop(K_k, Num(2))>>)>>, Ref(1)),
              Graph(<<>>, Num(1)), Graph(<<>>, Undef)}

ScalarSchemas ==
    {Str(S_number), Str(S_objectlike), Str(S_objectlike_or_number),
     Str(S_arraylike_or_number), Str(S_three_types), Null}

\* the schemas one round of nesting makes of the schemas sub: a field of an
\* object, a candidate, an each-clause sub-schema, a tuple element
Nest(sub) ==
    {Obj(<<Prop(K_s, c)>>) : c \in sub}
        \cup {Obj(<<Prop(K_k, Str(S_number)), Prop(K_s, c)>>) : c \in sub}
        \cup {Arr(<<c>>) : c \in sub}
        \cup {Arr(<<Arr(<<EachMarker, c>>)>>) : c \in sub}
        \cup {Arr(<<Arr(<<c>>)>>) : c \in sub}

RECURSIVE NestedSchemas(_)
NestedSchemas(n) ==
    IF n = 0 THEN ScalarSchemas
    ELSE NestedSchemas(n - 1) \cup Nest(NestedSchemas(n - 1))

\* lists whose first candidate throws or fails, a tuple clause with a hole,
\* an object schema whose first field fails
MixedSchemas ==
    {Arr(<<Null, Str(S_arraylike)>>),
     Arr(<<Arr(<<EachMarker, Str(S_number)>>), Arr(<<EachMarker, Str(S_three_types)>>)>>),
     Arr(<<Obj(<<Prop(<<"1">>, Str(S_number)), Prop(S_length, Num(2))>>)>>),
     Obj(<<Prop(K_k, Str(S_string)), Prop(K_s, Str(S_objectlike_or_number))>>)}

DescentSchemas == NestedSchemas(MaxNesting) \cup MixedSchemas

InitDescent ==
    /\ \E g \in DescentGraphs : heap = g.heap /\ inputData = g.root
    /\ validator \in DescentSchemas
    /\ result = Idle
    /\ descent = NoValue
    /\ cloneInput = NoValue /\ clone = NoValue
    /\ typeList = <<>> /\ keyList = <<>> /\ valList = <<>>
    /\ NoEncoderCall /\ NoEqualsCall

\* result = JSONCheck(inputData, validator), descent the calls it made
CallJSONCheckOnGraph ==
    /\ descent = NoValue
    /\ descent' = JSONCheckCall(heap, inputData, validator)
    /\ result' = descent'.out
    /\ UNCHANGED <<inputData, validator, data, encoded, decoded, equalsVars, cloneVars>>

NextDescent == CallJSONCheckOnGraph

SpecDescent == InitDescent /\ [][NextDescent]_vars

Descended == descent # NoValue

\* the entries of a list or clause: what its indices below its length hold
Entries(v) == {Get(v, IntToString(i - 1)) : i \in 1..LoopCount(v)}

\* the values of the fields of an object schema
FieldValues(v) == {v.props[i].v : i \in 1..Len(v.props)}

\* the strict sub-components a call may hand on: the pipe-free pieces of a
\* union string, the field values of an object schema, the entries of a list
\* and the entries of its clauses (each-clause sub-schemas, tuple elements)
SubComponents(v) ==
    IF v.t = "string" THEN
        IF HasChar(v.s, "|")
        THEN {Str(piece) : piece \in {q \in {Split(v.s, "|")[i] : i \in 1..Len(Split(v.s, "|"))} :
                                          ~HasChar(q, "|")}}
        ELSE {}
    ELSE IF v.t = "object" THEN FieldValues(v)
    ELSE IF v.t = "array"
         THEN Entries(v) \cup UNION {Entries(e) : e \in {x \in Entries(v) : x.t \in {"array", "object"}}}
    ELSE {}

\* the nesting depth of a schema: 0 for a scalar, one more than its deepest
\* entry or field for a list or an object
RECURSIVE SchemaDepth(_)
SchemaDepth(v) ==
    LET inner == IF v.t = "array" THEN {v.items[i] : i \in 1..Len(v.items)}
                 ELSE IF v.t = "object" THEN FieldValues(v)
                 ELSE {}
    IN  IF v.t \notin {"array", "object"} THEN 0
        ELSE 1 + Max({0} \cup {SchemaDepth(c) : c \in inner})

\* the objects an array or object of the heap refers to
RefsOf(x) ==
    IF x.t = "array" THEN {x.items[i].id : i \in {j \in 1..Len(x.items) : x.items[j].t = "ref"}}
    ELSE IF x.t = "object"
         THEN {x.props[i].v.id : i \in {j \in 1..Len(x.props) : x.props[j].v.t = "ref"}}
    ELSE {}

\* the objects reached from those of ids in at most n steps
RECURSIVE ReachFrom(_, _, _)
ReachFrom(h, ids, n) ==
    IF n = 0 THEN ids
    ELSE ReachFrom(h, ids \cup UNION {RefsOf(h[i]) : i \in ids}, n - 1)

\* the input reaches an object that reaches itself
IsCyclicInput(h, root) ==
    /\ root.t = "ref"
    /\ \E i \in ReachFrom(h, {root.id}, Len(h)) : i \in ReachFrom(h, RefsOf(h[i]), Len(h))

(* C15 - termination by schema descent: the call returns (true, false or a  *)
(* TypeError) on every explored input graph, cyclic ones included; every    *)
(* call of JSONCheck made below it received a strict sub-component of its    *)
(* caller's validator (an object value, a list entry, an entry of a clause, *)
(* a pipe-free piece of a union string); and the calls nest no deeper below *)
(* the first call than the nesting depth of the schema plus one.            *)
C15_SchemaDescent ==
    Descended =>
        /\ result \in {"true", "false", TypeError}
        /\ \A p \in descent.pairs : p[2] \in SubComponents(p[1])
        /\ descent.depth <= SchemaDepth(validator) + 1

\* a cyclic input checked through its cycle down to the pieces of a union
\* string, the depth bound attained
C15_Witness ==
    /\ Descended
    /\ IsCyclicInput(heap, inputData)
    /\ result = "true"
    /\ descent.depth = SchemaDepth(validator) + 1
    /\ descent.depth >= 3

====
